---- MODULE Spec2Model ----
(***************************************************************************)
(* Playback control kernel of wrkmon: the play queue (core/queue.py), the  *)
(* sleep timer (core/sleep_timer.py) and the retry decorator               *)
(* (utils/retry.py).  Each component has its own specification            *)
(* (SpecQueue, SpecTimer, SpecRetry; SpecItems is the play queue seen      *)
(* through the fields of its items); the variables of the other            *)
(* components stay at their initial values.                                *)
(***************************************************************************)
EXTENDS Integers, Sequences, FiniteSets, TLC

\* ------------------------------------------------------------------ bounds
MaxLen == 3          \* longest queue explored
MaxTasks == 4        \* countdown tasks created in one behaviour
MaxNow == 2          \* minutes of clock time explored
MaxMinutes == 2      \* longest duration passed to start()/reset()
RearmMinutes == 1    \* duration a re-arming callback passes to start()
MaxRetries == 2      \* largest max_retries given to retry_with_backoff
MaxBaseDelay == 1    \* largest base_delay, in seconds
MaxMaxDelay == 2     \* largest max_delay, in seconds
MaxDicts == 2        \* longest list handed to load_from_dicts() with item fields
MaxVideoId == 2      \* video ids of stored records are 1..MaxVideoId
MaxPosition == 1     \* largest stored playback_position

\* Python's None as a return value; item identities are 1, 2, ...
None == 0
\* next()/previous() "return None without moving" marker of NextIndex/PreviousIndex
Stay == -2
\* ghost: no run of consecutive next() calls is being recorded
NoRun == Stay - 1
\* a list subscript out of range (the call raises IndexError)
IndexError == -1
\* minutes * 60.0
SecondsPerMinute == 60
\* _started_at = None
NotStarted == -1
\* time.time() when a stored item was added, and when a record is loaded
SavedAt == 1
LoadTime == 2

VARIABLES
    \* PlayQueue fields (queue.py 70-74)
    items,           \* list[QueueItem]: sequence of item identities
    current_index,   \* int, -1 = nothing selected
    shuffle_mode,    \* bool
    repeat_mode,     \* "none" | "one" | "all"
    shuffle_order,   \* list[int]: 0-based canonical indices
    \* observation of the last PlayQueue call
    qop,             \* name of the last operation called
    qret,            \* its return value (None = 0, False = 0, True = 1)
    qargs,           \* its index arguments, in order (clear: the item count)
    runStart,        \* cursor before the first call of the current run of next() calls
    nextRets,        \* values returned by the current run of consecutive next() calls
    \* SleepTimer (sleep_timer.py 16-21) and the event loop around it
    timer,           \* record of the fields _callback, _duration_seconds, _task, _active, _started_at
    now,             \* time.monotonic(), in seconds
    tasks,           \* the asyncio tasks running _countdown(), by id
    clients,         \* the tasks calling start()/stop()/reset(), by name
    returned,        \* the SleepTimer call that returned in the last step, and its outcome
    afterStop,       \* "quiet" once a stop() call has returned and nothing was armed since;
                     \* "fired" once the callback was invoked in that period
    \* one call of a function wrapped by retry_with_backoff (retry.py 44-84)
    policy,          \* the decorator's arguments max_retries, base_delay, max_delay, exceptions
    wpc,             \* where the wrapper is: "idle", "call", "sleep", "cancelling", "returned",
                     \* "raised", "cancelled"
    attempt,         \* the loop variable
    last_exception,  \* the local of that name, None = 0
    outcome,         \* what the wrapper returned or raised, None = 0
    calls,           \* what each invocation of the wrapped function did, in order
    sleeps,          \* the delays passed to asyncio.sleep, in order
    \* a PlayQueue seen through the fields of its items (queue.py 12-19, 70-71)
    item_fields,     \* items: one record of six fields per QueueItem, canonical order
    item_index,      \* current_index of that queue
    iop,             \* name of the last observed call on it
    iargs,           \* its arguments
    iret             \* its return value

queueVars == <<items, current_index, shuffle_mode, repeat_mode, shuffle_order>>
queueObs == <<qop, qret, qargs, runStart, nextRets>>

timerVars == <<timer, now, tasks, clients, returned, afterStop>>

retryVars == <<policy, wpc, attempt, last_exception, outcome, calls, sleeps>>

itemVars == <<item_fields, item_index, iop, iargs, iret>>

vars == <<queueVars, queueObs, timerVars, retryVars, itemVars>>

\* what a PlayQueue call leaves alone
otherThanQueue == <<timerVars, retryVars, itemVars>>

\* what a SleepTimer step leaves alone
otherThanTimer == <<queueVars, queueObs, retryVars, itemVars>>

\* what the retry wrapper leaves alone
otherThanRetry == <<queueVars, queueObs, timerVars, itemVars>>

\* what a call on the queue of item records leaves alone
otherThanItems == <<queueVars, queueObs, timerVars, retryVars>>

\* ------------------------------------------------------------ list helpers
\* list.pop(i), i 0-based and in range
Pop(s, i) == [k \in 1..(Len(s) - 1) |-> IF k <= i THEN s[k] ELSE s[k + 1]]

\* list.insert(i, x), 0 <= i <= len(s)
Insert(s, i, x) ==
    [k \in 1..(Len(s) + 1) |-> IF k <= i THEN s[k] ELSE IF k = i + 1 THEN x ELSE s[k - 1]]

\* [f(x) for x in s if keep(x)] building blocks
RECURSIVE Without(_, _)
Without(s, v) ==
    IF s = <<>> THEN <<>>
    ELSE IF Head(s) = v THEN Without(Tail(s), v)
    ELSE <<Head(s)>> \o Without(Tail(s), v)

\* list(range(n))
Range(n) == [k \in 1..n |-> k - 1]

\* position (0-based) of the first occurrence of v in s; s.index(v)
IndexOf(s, v) == (CHOOSE k \in 1..Len(s) : s[k] = v /\ \A j \in 1..(k - 1) : s[j] # v) - 1

Elems(s) == {s[k] : k \in 1..Len(s)}

\* every arrangement random.shuffle can leave list(range(n)) in
Shuffles(n) == {[k \in 1..n |-> q[k] - 1] : q \in Permutations(1..n)}

\* a fresh QueueItem object: an identity no queued item has
FreshItem(its) == CHOOSE u \in 1..(Len(its) + 1) : u \notin Elems(its)

Bool(b) == IF b THEN 1 ELSE 0

\* ------------------------------------------------------------- PlayQueue
\* PlayQueue.current as a function of the fields; "IndexError" when the
\* subscript self._shuffle_order[self.current_index] is out of range
CurrentOf(its, ci, sm, so) ==
    IF 0 <= ci /\ ci < Len(its)
    THEN IF sm /\ so # <<>>
         THEN IF ci < Len(so) THEN its[so[ci + 1] + 1] ELSE IndexError
         ELSE its[ci + 1]
    ELSE None

Current == CurrentOf(items, current_index, shuffle_mode, shuffle_order)

\* Observation of calls.  A behaviour is any sequence of calls followed by
\* the observed ones: one call of any operation, or a run of consecutive
\* next() calls.  qop = "-" while nothing has been observed; every reachable
\* queue state is reached with qop = "-", so every call from every reachable
\* state is observed in some behaviour.
Unobserved ==
    /\ qop = "-"
    /\ UNCHANGED queueObs

NoteCall(op, args, r) ==
    /\ qop = "-"
    /\ \/ UNCHANGED queueObs
       \/ /\ qop' = op
          /\ qret' = r
          /\ qargs' = args
          /\ UNCHANGED <<runStart, nextRets>>

NoteOther(op, r) == NoteCall(op, <<>>, r)

NoteNext(r) ==
    \/ Unobserved
    \/ /\ qop \in {"-", "next"}
       /\ Len(nextRets) <= MaxLen
       /\ qop' = "next"
       /\ qret' = r
       /\ qargs' = <<>>
       /\ runStart' = IF qop = "-" THEN current_index ELSE runStart
       /\ nextRets' = Append(nextRets, r)

\* previous() may also be observed right after a run of next() calls
NotePrevious(r) ==
    \/ Unobserved
    \/ /\ qop \in {"-", "next"}
       /\ qop' = "previous"
       /\ qret' = r
       /\ qargs' = <<>>
       /\ UNCHANGED <<runStart, nextRets>>

\* mutant: the removed index is stripped but the larger ones are not renumbered
ShuffleOrderAfterRemove_NoRenumber(so, index) == Without(so, index)

\* remove(): the two comprehensions that patch _shuffle_order (135-136)
ShuffleOrderAfterRemove(so, index) ==
    LET kept == Without(so, index)
    IN  [k \in 1..Len(kept) |-> IF kept[k] > index THEN kept[k] - 1 ELSE kept[k]]

\* mutant: the cursor is not clamped when the current, last item is removed
CursorAfterRemove_NoClamp(ci, index, newLen) == IF index < ci THEN ci - 1 ELSE ci

\* remove(): "Update current index" (139-144); newLen = len(items) after the pop
CursorAfterRemove(ci, index, newLen) ==
    IF index < ci THEN ci - 1
    ELSE IF index = ci
         THEN IF ci >= newLen THEN newLen - 1 ELSE ci
         ELSE ci

\* mutant: next() wraps whatever the repeat mode
NextIndex_AlwaysWraps(ci, n, rm) == IF ci < n - 1 THEN ci + 1 ELSE 0

\* mutant: next() steps past the last slot before it wraps
NextIndex_OffByOne(ci, n, rm) ==
    IF ci < n THEN ci + 1
    ELSE IF rm = "all" THEN 0
    ELSE Stay

\* next(): the cursor it moves to, n = length of the order it walks (163-176)
NextIndex(ci, n, rm) ==
    IF ci < n - 1 THEN ci + 1
    ELSE IF rm = "all" THEN 0
    ELSE Stay

\* mutant: previous() wraps to the first slot
PreviousIndex_WrapsToFirst(ci, n, rm) ==
    IF ci > 0 THEN ci - 1
    ELSE IF rm = "all" THEN 0
    ELSE Stay

\* previous(): the cursor it moves to, n = len(items) (188-193)
PreviousIndex(ci, n, rm) ==
    IF ci > 0 THEN ci - 1
    ELSE IF rm = "all" THEN n - 1
    ELSE Stay

\* mutant: the current item is not moved to the front of the new order
CreateShuffleOrder_NoPin(p, ci) == [order |-> p, index |-> ci]

\* _create_shuffle_order(): p is what random.shuffle left; the current index
\* is moved to the front and the cursor reset (227-236)
CreateShuffleOrder(p, ci) ==
    IF ci >= 0 /\ ci \in Elems(p)
    THEN [order |-> Insert(Pop(p, IndexOf(p, ci)), 0, ci), index |-> 0]
    ELSE [order |-> p, index |-> ci]

\* every (order, cursor) _create_shuffle_order() can leave for n items
ShuffleOutcomes(n, ci) == {CreateShuffleOrder(p, ci) : p \in Shuffles(n)}

\* unshuffle(): "Update current index to actual position" (213-214)
UnshuffleIndex(so, ci) ==
    IF so # <<>> /\ 0 <= ci /\ ci < Len(so) THEN so[ci + 1] ELSE ci

\* mutant: the cursor follows the moved item but is not shifted by a move
\* that crosses it
CursorAfterMove_NoShift(ci, from, to) == IF ci = from THEN to ELSE ci

\* move(): "Update current index" (259-264)
CursorAfterMove(ci, from, to) ==
    IF ci = from THEN to
    ELSE IF from < ci /\ ci <= to THEN ci - 1
    ELSE IF to <= ci /\ ci < from THEN ci + 1
    ELSE ci

RepeatModes == <<"none", "one", "all">>

\* ---- operations
\* mutant: the new index is not appended to the shuffle order
QAdd_OrderNotExtended ==
    /\ qop = "-"
    /\ UNCHANGED otherThanQueue
    /\ Len(items) < MaxLen
    /\ items' = Append(items, FreshItem(items))
    /\ UNCHANGED <<current_index, shuffle_mode, repeat_mode, shuffle_order>>
    /\ NoteOther("add", Len(items') - 1)

\* add(item) (112-117)
QAdd ==
    /\ qop = "-"
    /\ UNCHANGED otherThanQueue
    /\ Len(items) < MaxLen
    /\ items' = Append(items, FreshItem(items))
    /\ shuffle_order' = IF shuffle_mode THEN Append(shuffle_order, Len(items') - 1)
                        ELSE shuffle_order
    /\ UNCHANGED <<current_index, shuffle_mode, repeat_mode>>
    /\ NoteOther("add", Len(items') - 1)

QRemove ==
    /\ qop = "-"
    /\ UNCHANGED otherThanQueue
    /\ \E index \in -1..Len(items) :
               IF 0 <= index /\ index < Len(items)
               THEN /\ items' = Pop(items, index)
                    /\ shuffle_order' = IF shuffle_mode
                                        THEN ShuffleOrderAfterRemove(shuffle_order, index)
                                        ELSE shuffle_order
                    /\ current_index' = CursorAfterRemove(current_index, index, Len(items'))
                    /\ UNCHANGED <<shuffle_mode, repeat_mode>>
                    /\ NoteCall("remove", <<index>>, items[index + 1])
               ELSE /\ UNCHANGED queueVars
                    /\ NoteCall("remove", <<index>>, None)

\* mutant: clear() leaves the projection in place
QClear_KeepsOrder ==
    /\ qop = "-"
    /\ UNCHANGED otherThanQueue
    /\ items' = <<>>
    /\ shuffle_order' = shuffle_order
    /\ current_index' = -1
    /\ UNCHANGED <<shuffle_mode, repeat_mode>>
    /\ NoteCall("clear", <<Len(items)>>, None)

\* clear() (149-153); the observation records how many items it dropped
QClear ==
    /\ qop = "-"
    /\ UNCHANGED otherThanQueue
    /\ items' = <<>>
    /\ shuffle_order' = <<>>
    /\ current_index' = -1
    /\ UNCHANGED <<shuffle_mode, repeat_mode>>
    /\ NoteCall("clear", <<Len(items)>>, None)

\* has_next (96-103)
HasNext ==
    IF repeat_mode = "all" THEN Len(items) > 0
    ELSE IF repeat_mode = "one" THEN Current # None
    ELSE current_index < Len(items) - 1

\* has_previous (105-110)
HasPrevious ==
    IF repeat_mode \in {"all", "one"} THEN Len(items) > 0
    ELSE current_index > 0

\* mutant: next() returns the item at the new cursor in the canonical order
NextStep_ReadsCanonical ==
    IF items = <<>> THEN [index |-> current_index, ret |-> None]
    ELSE IF repeat_mode = "one" THEN [index |-> current_index, ret |-> Current]
    ELSE LET n == IF shuffle_mode THEN Len(shuffle_order) ELSE Len(items)
             to == NextIndex(current_index, n, repeat_mode)
         IN  IF to = Stay THEN [index |-> current_index, ret |-> None]
             ELSE [index |-> to, ret |-> items[to + 1]]

\* mutant: next() advances under repeat mode "one" as well
NextStep_IgnoresRepeatOne ==
    IF items = <<>> THEN [index |-> current_index, ret |-> None]
    ELSE LET n == IF shuffle_mode THEN Len(shuffle_order) ELSE Len(items)
             to == NextIndex(current_index, n, repeat_mode)
         IN  IF to = Stay THEN [index |-> current_index, ret |-> None]
             ELSE [index |-> to, ret |-> CurrentOf(items, to, shuffle_mode, shuffle_order)]

\* the value next() returns and the cursor it leaves
NextStep ==
    IF items = <<>> THEN [index |-> current_index, ret |-> None]
    ELSE IF repeat_mode = "one" THEN [index |-> current_index, ret |-> Current]
    ELSE LET n == IF shuffle_mode THEN Len(shuffle_order) ELSE Len(items)
             to == NextIndex(current_index, n, repeat_mode)
         IN  IF to = Stay THEN [index |-> current_index, ret |-> None]
             ELSE [index |-> to, ret |-> CurrentOf(items, to, shuffle_mode, shuffle_order)]

QNext ==
    /\ qop \in {"-", "next"}
    /\ UNCHANGED otherThanQueue
    /\ current_index' = NextStep.index
    /\ UNCHANGED <<items, shuffle_mode, repeat_mode, shuffle_order>>
    /\ NoteNext(NextStep.ret)

PreviousStep ==
    IF items = <<>> THEN [index |-> current_index, ret |-> None]
    ELSE IF repeat_mode = "one" THEN [index |-> current_index, ret |-> Current]
    ELSE LET to == PreviousIndex(current_index, Len(items), repeat_mode)
         IN  IF to = Stay THEN [index |-> current_index, ret |-> None]
             ELSE [index |-> to, ret |-> CurrentOf(items, to, shuffle_mode, shuffle_order)]

QPrevious ==
    /\ qop \in {"-", "next"}
    /\ UNCHANGED otherThanQueue
    /\ current_index' = PreviousStep.index
    /\ UNCHANGED <<items, shuffle_mode, repeat_mode, shuffle_order>>
    /\ NotePrevious(PreviousStep.ret)

\* mutant: the lower bound of the index check is missing
QJumpTo_NoLowerBound ==
    /\ qop = "-"
    /\ UNCHANGED otherThanQueue
    /\ \E index \in -1..Len(items) :
               IF index < Len(items)
               THEN /\ current_index' = index
                    /\ UNCHANGED <<items, shuffle_mode, repeat_mode, shuffle_order>>
                    /\ NoteCall("jump_to", <<index>>, CurrentOf(items, index, shuffle_mode, shuffle_order))
               ELSE /\ UNCHANGED queueVars
                    /\ NoteCall("jump_to", <<index>>, None)

\* jump_to(index) (197-202)
QJumpTo ==
    /\ qop = "-"
    /\ UNCHANGED otherThanQueue
    /\ \E index \in -1..Len(items) :
               IF 0 <= index /\ index < Len(items)
               THEN /\ current_index' = index
                    /\ UNCHANGED <<items, shuffle_mode, repeat_mode, shuffle_order>>
                    /\ NoteCall("jump_to", <<index>>, CurrentOf(items, index, shuffle_mode, shuffle_order))
               ELSE /\ UNCHANGED queueVars
                    /\ NoteCall("jump_to", <<index>>, None)

\* shuffle() (204-207)
DoShuffle ==
    \E c \in ShuffleOutcomes(Len(items), current_index) :
        /\ shuffle_mode' = TRUE
        /\ shuffle_order' = c.order
        /\ current_index' = c.index
        /\ UNCHANGED <<items, repeat_mode>>

\* mutant: unshuffle() leaves the projection in place
DoUnshuffle_KeepsOrder ==
    /\ shuffle_mode' = FALSE
    /\ current_index' = UnshuffleIndex(shuffle_order, current_index)
    /\ shuffle_order' = shuffle_order
    /\ UNCHANGED <<items, repeat_mode>>

\* unshuffle() (209-215)
DoUnshuffle ==
    /\ shuffle_mode' = FALSE
    /\ current_index' = UnshuffleIndex(shuffle_order, current_index)
    /\ shuffle_order' = <<>>
    /\ UNCHANGED <<items, repeat_mode>>

QShuffle ==
    /\ qop = "-"
    /\ UNCHANGED otherThanQueue
    /\ DoShuffle
    /\ NoteOther("shuffle", None)

QUnshuffle ==
    /\ qop = "-"
    /\ UNCHANGED otherThanQueue
    /\ DoUnshuffle
    /\ NoteOther("unshuffle", None)

QToggleShuffle ==
    /\ qop = "-"
    /\ UNCHANGED otherThanQueue
    /\ IF shuffle_mode THEN DoUnshuffle ELSE DoShuffle
    /\ NoteOther("toggle_shuffle", Bool(shuffle_mode'))

QSetRepeat ==
    /\ qop = "-"
    /\ UNCHANGED otherThanQueue
    /\ \E mode \in {"none", "one", "all", "bogus"} :
               /\ repeat_mode' = IF mode \in {"none", "one", "all"} THEN mode ELSE repeat_mode
               /\ UNCHANGED <<items, current_index, shuffle_mode, shuffle_order>>
               /\ NoteOther("set_repeat", None)

QCycleRepeat ==
    /\ qop = "-"
    /\ UNCHANGED otherThanQueue
    /\ repeat_mode' = RepeatModes[((IndexOf(RepeatModes, repeat_mode) + 1) % 3) + 1]
    /\ UNCHANGED <<items, current_index, shuffle_mode, shuffle_order>>
    /\ NoteOther("cycle_repeat", None)

QMove ==
    /\ qop = "-"
    /\ UNCHANGED otherThanQueue
    /\ \E from \in -1..Len(items), to \in -1..Len(items) :
               IF ~(0 <= from /\ from < Len(items) /\ 0 <= to /\ to < Len(items))
               THEN /\ UNCHANGED queueVars
                    /\ NoteCall("move", <<from, to>>, Bool(FALSE))
               ELSE LET moved == CursorAfterMove(current_index, from, to)
                    IN  /\ items' = Insert(Pop(items, from), to, items[from + 1])
                        /\ IF shuffle_mode
                           THEN \E c \in ShuffleOutcomes(Len(items), moved) :
                                   shuffle_order' = c.order /\ current_index' = c.index
                           ELSE shuffle_order' = shuffle_order /\ current_index' = moved
                        /\ UNCHANGED <<shuffle_mode, repeat_mode>>
                        /\ NoteCall("move", <<from, to>>, Bool(TRUE))

\* QueueItem.to_dict() and QueueItem.from_dict() (35-58): the record holds
\* the item's fields, the item built from it has the record's fields
ToDict(item) == [video_id |-> item]

FromDict(data) == data.video_id

\* to_dict_list() (307-309)
ToDictList(its) == [k \in 1..Len(its) |-> ToDict(its[k])]

\* what _save_queue() hands to the storage (app.py 259-268)
ToSnapshot ==
    [items |-> ToDictList(items), current_index |-> current_index,
     shuffle_mode |-> shuffle_mode, repeat_mode |-> repeat_mode]

\* load_from_dicts(dicts, index) on a queue whose shuffle flag is sm
\* (311-319): every (items, cursor, projection) it can leave
LoadOutcomes(dicts, index, sm) ==
    LET loaded == IF -1 <= index /\ index < Len(dicts) THEN index ELSE -1
        its == [k \in 1..Len(dicts) |-> FromDict(dicts[k])]
    IN  IF sm
        THEN {[items |-> its, index |-> c.index, order |-> c.order] :
                 c \in ShuffleOutcomes(Len(dicts), loaded)}
        ELSE {[items |-> its, index |-> loaded, order |-> <<>>]}

\* the application stops and starts again: _save_queue() (app.py 259-271),
\* then a new PlayQueue whose flags come from the configuration file
\* (app.py 145-146) and _load_saved_queue() (app.py 236-243), which loads
\* only a snapshot that has items.  The file holds the flags written at exit
\* (app.py 983-984), observed as "restart", or older ones, "restart_stale".
AppRestart ==
    /\ qop = "-"
    /\ UNCHANGED otherThanQueue
    /\ \E cfgShuffle \in BOOLEAN, cfgRepeat \in {"none", "one", "all"} :
          LET saved == ToSnapshot
          IN  /\ IF saved.items # <<>>
                 THEN \E o \in LoadOutcomes(saved.items, saved.current_index, cfgShuffle) :
                         /\ items' = o.items
                         /\ current_index' = o.index
                         /\ shuffle_order' = o.order
                         /\ shuffle_mode' = saved.shuffle_mode
                         /\ repeat_mode' = saved.repeat_mode
                 ELSE /\ items' = <<>>
                      /\ current_index' = -1
                      /\ shuffle_order' = <<>>
                      /\ shuffle_mode' = cfgShuffle
                      /\ repeat_mode' = cfgRepeat
              /\ NoteOther(IF cfgShuffle = saved.shuffle_mode /\ cfgRepeat = saved.repeat_mode
                           THEN "restart" ELSE "restart_stale", None)

\* load_from_dicts(): n records, each becoming a new QueueItem (311-319)
QLoadFromDicts ==
    /\ qop = "-"
    /\ UNCHANGED otherThanQueue
    /\ \E n \in 0..MaxLen, index \in -2..MaxLen :
               /\ index <= n
               /\ LET loaded == IF -1 <= index /\ index < n THEN index ELSE -1
                  IN
                   /\ items' = [k \in 1..n |-> k]
                   /\ IF shuffle_mode
                      THEN \E c \in ShuffleOutcomes(n, loaded) :
                              shuffle_order' = c.order /\ current_index' = c.index
                      ELSE shuffle_order' = <<>> /\ current_index' = loaded
                   /\ UNCHANGED <<shuffle_mode, repeat_mode>>
                   /\ NoteOther("load_from_dicts", None)

\* PlayQueue() as the dataclass constructs it (70-74)
InitQueue ==
    /\ items = <<>>
    /\ current_index = -1
    /\ shuffle_mode = FALSE
    /\ repeat_mode = "none"
    /\ shuffle_order = <<>>
    /\ qop = "-"
    /\ qret = None
    /\ qargs = <<>>
    /\ runStart = NoRun
    /\ nextRets = <<>>

NextQueue ==
    \/ QAdd
    \/ QRemove
    \/ QClear
    \/ QNext
    \/ QPrevious
    \/ QJumpTo
    \/ QShuffle
    \/ QUnshuffle
    \/ QToggleShuffle
    \/ QSetRepeat
    \/ QCycleRepeat
    \/ QMove
    \/ QLoadFromDicts

\* ------------------------------------------------- QueueItem fields
\* the fields of a QueueItem (12-19) and the keys of its dict (49-58)
ItemKeys == {"video_id", "title", "channel", "duration", "added_at", "playback_position"}

\* the keys from_dict() reads with data[...] (42-45)
SubscriptedKeys == {"video_id", "title", "channel", "duration"}

VideoIds == 1..MaxVideoId

\* a dict with the keys in keys; title, channel and duration hold one value
DictOf(keys, vid, pos) ==
    [k \in keys |-> CASE k = "video_id" -> vid
                      [] k = "playback_position" -> pos
                      [] k = "added_at" -> SavedAt
                      [] OTHER -> 1]

\* the stored records explored: complete, or with one key missing
Dicts ==
    {DictOf(ItemKeys \ missing, vid, pos) :
        missing \in {{}} \cup {{k} : k \in ItemKeys}, vid \in VideoIds,
        pos \in (0 - MaxPosition)..MaxPosition}

RECURSIVE ListsOf(_, _)
\* the lists of at most n elements of S
ListsOf(S, n) ==
    IF n = 0 THEN {<<>>}
    ELSE LET shorter == ListsOf(S, n - 1)
         IN  shorter \cup {Append(l, x) : l \in {m \in shorter : Len(m) = n - 1}, x \in S}

\* QueueItem.from_dict(data) (35-47): KeyError from a data[...] subscript,
\* data.get(...) defaults for the other two keys
QueueItemFromDict(data) ==
    IF SubscriptedKeys \subseteq DOMAIN data
    THEN [raised |-> FALSE,
          item |-> [video_id |-> data["video_id"],
                    title |-> data["title"],
                    channel |-> data["channel"],
                    duration |-> data["duration"],
                    added_at |-> IF "added_at" \in DOMAIN data
                                 THEN data["added_at"] ELSE LoadTime,
                    playback_position |-> IF "playback_position" \in DOMAIN data
                                          THEN data["playback_position"] ELSE 0]]
    ELSE [raised |-> TRUE]

RECURSIVE LoadLoop(_, _)
\* the loop of load_from_dicts() (314-316) from the k-th dict on, its holds
\* the items appended so far: the exception of from_dict() ends the call
LoadLoop(dicts, its) ==
    IF Len(its) = Len(dicts) THEN [items |-> its, raised |-> FALSE]
    ELSE LET made == QueueItemFromDict(dicts[Len(its) + 1])
         IN  IF made.raised THEN [items |-> its, raised |-> TRUE]
             ELSE LoadLoop(dicts, Append(its, made.item))

NoteItems(op, args, r) ==
    /\ iop = "-"
    /\ \/ UNCHANGED <<iop, iargs, iret>>
       \/ /\ iop' = op
          /\ iargs' = args
          /\ iret' = r

\* load_from_dicts(dicts, index) (311-319) as the application calls it at
\* startup (app.py 241), on the queue it has just created
ILoadFromDicts ==
    /\ iop = "-"
    /\ item_fields = <<>>
    /\ UNCHANGED otherThanItems
    /\ \E dicts \in ListsOf(Dicts, MaxDicts), index \in -1..MaxDicts :
          LET loaded == LoadLoop(dicts, <<>>)
          IN  /\ item_fields' = loaded.items
              /\ item_index' = IF ~loaded.raised /\ -1 <= index /\ index < Len(loaded.items)
                                THEN index ELSE -1
              /\ NoteItems(IF loaded.raised THEN "load_raised" ELSE "load", dicts, None)

\* position (1-based) of the first item with this video_id, 0 when there is
\* none: `for item in self.items: if item.video_id == video_id` (295-296)
FirstWith(its, vid) ==
    IF \E k \in 1..Len(its) : its[k].video_id = vid
    THEN CHOOSE k \in 1..Len(its) :
            its[k].video_id = vid /\ \A j \in 1..(k - 1) : its[j].video_id # vid
    ELSE 0

\* mutant: the position is written to the first item, whatever its id
UpdatePositions_IgnoresId(its, vid, pos) ==
    IF its = <<>> THEN its ELSE [its EXCEPT ![1].playback_position = pos]

\* update_playback_position() (293-298): the items afterwards
UpdatePositions(its, vid, pos) ==
    IF FirstWith(its, vid) = 0 THEN its
    ELSE [its EXCEPT ![FirstWith(its, vid)].playback_position = pos]

\* get_playback_position() (300-305)
PositionOf(its, vid) ==
    IF FirstWith(its, vid) = 0 THEN 0 ELSE its[FirstWith(its, vid)].playback_position

\* update_playback_position(video_id, position) (293-298)
IUpdatePlaybackPosition ==
    /\ iop = "-"
    /\ UNCHANGED otherThanItems
    /\ \E vid \in 1..(MaxVideoId + 1), pos \in (0 - MaxPosition)..(MaxPosition + 1) :
          /\ item_fields' = UpdatePositions(item_fields, vid, pos)
          /\ item_index' = item_index
          /\ NoteItems("update", <<vid, pos>>, None)

\* get_playback_position(video_id) (300-305); it may also be observed right
\* after an observed update
IGetPlaybackPosition ==
    /\ iop \in {"-", "update"}
    /\ UNCHANGED otherThanItems
    /\ UNCHANGED <<item_fields, item_index>>
    /\ \E vid \in 1..(MaxVideoId + 1) :
          IF iop = "-"
          THEN NoteItems("get", <<vid>>, PositionOf(item_fields, vid))
          ELSE /\ iop' = "update_get"
               /\ iargs' = Append(iargs, vid)
               /\ iret' = PositionOf(item_fields, vid)

\* PlayQueue() (70-74)
InitItems ==
    /\ item_fields = <<>>
    /\ item_index = -1
    /\ iop = "-"
    /\ iargs = <<>>
    /\ iret = None

NextItems ==
    \/ ILoadFromDicts
    \/ IUpdatePlaybackPosition
    \/ IGetPlaybackPosition

\* ------------------------------------------------------------ SleepTimer
\* The event loop runs one task at a time; a task runs until it awaits
\* something that is not ready.  Each action below is one such run.
TaskIds == 1..MaxTasks

Clients == {"c1", "c2"}

\* what set_callback() may register: nothing, a plain function, a function
\* that raises, a coroutine function that suspends before it returns or raises, and a
\* coroutine function that re-arms the timer with `await timer.start(...)`
CallbackKinds == {"none", "sync", "raise", "async", "async_raise", "rearm"}

\* the callback fails: it raises an Exception when called ("raise"), or the
\* coroutine it returned raises one after it was suspended ("async_raise")
Raising(kind) == kind \in {"raise", "async_raise"}

\* Task.done()
Done(t) == tasks[t].st \in {"finished", "failed", "cancelled"}

\* SleepTimer.is_active (23-25)
IsActive == timer.active /\ timer.task # None /\ ~Done(timer.task)

\* SleepTimer.remaining_seconds (27-32)
RemainingSeconds ==
    IF ~IsActive \/ timer.started_at = NotStarted THEN 0
    ELSE LET elapsed == now - timer.started_at
             left == timer.duration_seconds - elapsed
         IN  IF left > 0 THEN left ELSE 0

\* _cleanup() (90-93)
Cleanup(tm) == [tm EXCEPT !.active = FALSE, !.started_at = NotStarted, !.task = None]

\* start(), after `await self.stop()`: lines 46-49 with the new task's id
Arm(tm, minutes, id) ==
    [tm EXCEPT !.duration_seconds = minutes * SecondsPerMinute,
               !.started_at = now,
               !.active = TRUE,
               !.task = id]

\* Task.cancel(): a task that has not run yet or is suspended in a sleep or
\* in the callback gets CancelledError at its next step; a finished task is
\* left alone, and so is a task suspended in stop()'s own `await self._task`,
\* whose `except CancelledError: pass` swallows the request
CancelTask(tks, t) ==
    IF tks[t].st \in {"ready", "sleeping", "callback", "selfwait"}
    THEN [tks EXCEPT ![t].cancel = TRUE]
    ELSE tks

\* asyncio.create_task(self._countdown()): the id of the new task
FreeId == CHOOSE id \in TaskIds : tasks[id].st = "none" /\ \A j \in 1..(id - 1) : tasks[j].st # "none"

\* calls of start() that have not created their task yet
StartsInFlight ==
    Cardinality({c \in Clients : clients[c].pc = "stop_wait" /\ clients[c].op # "stop"})
    + Cardinality({t \in TaskIds : tasks[t].st \in {"selfwait", "stopwait"}})

\* bound of the model: another start() may begin
CanStart == Cardinality({t \in TaskIds : tasks[t].st # "none"}) + StartsInFlight < MaxTasks

Idle == [pc |-> "idle", op |-> "-", arg |-> 0, wait |-> None]

\* the call that returned in the last step and how, if one did
NoReturn == [op |-> "-", arg |-> None, ret |-> "-"]

\* arg: the minutes passed to start(), the duration reset() settled on
ReturnOf(op, arg, ret) == [op |-> op, arg |-> arg, ret |-> ret]

Return(op, ret) == ReturnOf(op, None, ret)

NoteStopReturned == IF afterStop = "fired" THEN "fired" ELSE "quiet"

NoteArmed == IF afterStop = "fired" THEN "fired" ELSE "no"

NoteFired == IF afterStop = "quiet" THEN "fired" ELSE afterStop

\* the end of a task: Task.done() is all that is left of it
Finished(tk) == [tk EXCEPT !.st = "finished", !.cancel = FALSE, !.wake = 0, !.wait = None]

\* the end of a task that an exception other than CancelledError leaves
Failed(tk) == [tk EXCEPT !.st = "failed", !.cancel = FALSE, !.wake = 0, !.wait = None]

\* mutant: the callback's exception is not caught and ends the task
CallbackEnd_Propagates(tk, raised) == IF raised THEN Failed(tk) ELSE Finished(tk)

\* the end of _fire_callback() and _countdown() once the callback has
\* returned or raised: `except Exception` logs the failure (87-88), the task
\* returns normally either way
CallbackEnd(tk, raised) == Finished(tk)

Cancelled(tk) == [tk EXCEPT !.st = "cancelled", !.cancel = FALSE, !.wake = 0, !.wait = None]

\* a call of start()/reset() by client c from the end of `await self._task`
\* (or from the skipped `if`) to its return: _cleanup(), then lines 46-49
FinishStart(c, op, minutes) ==
    /\ timer' = Arm(Cleanup(timer), minutes, FreeId)
    /\ tasks' = [tasks EXCEPT ![FreeId].st = "ready"]
    /\ clients' = [clients EXCEPT ![c] = Idle]
    /\ returned' = ReturnOf(op, minutes, "ok")
    /\ afterStop' = NoteArmed

\* a call of stop() by client c from the end of `await self._task` to its return
FinishStop(c) ==
    /\ timer' = Cleanup(timer)
    /\ tasks' = tasks
    /\ clients' = [clients EXCEPT ![c] = Idle]
    /\ returned' = Return("stop", "ok")
    /\ afterStop' = NoteStopReturned

\* stop() as called by client c, on its own (op = "stop") or from start():
\* lines 54-57 up to the await, and on to the return when nothing is awaited
EnterStop(c, op, minutes) ==
    IF timer.task # None /\ ~Done(timer.task)
    THEN /\ tasks' = CancelTask(tasks, timer.task)
         /\ clients' = [clients EXCEPT ![c] =
                [pc |-> "stop_wait", op |-> op, arg |-> minutes, wait |-> timer.task]]
         /\ returned' = NoReturn
         /\ UNCHANGED <<timer, afterStop>>
    ELSE IF op = "stop" THEN FinishStop(c) ELSE FinishStart(c, op, minutes)

\* mutant: the countdown is cancelled before the argument is validated
CallStart_CancelsBeforeValidating(c) ==
    /\ clients[c].pc = "idle"
    /\ UNCHANGED <<otherThanTimer, now>>
    /\ \E minutes \in -1..MaxMinutes :
          IF minutes <= 0
          THEN /\ returned' = ReturnOf("start", minutes, "ValueError")
               /\ tasks' = IF timer.task # None /\ ~Done(timer.task)
                            THEN CancelTask(tasks, timer.task) ELSE tasks
               /\ UNCHANGED <<timer, clients, afterStop>>
          ELSE /\ CanStart
               /\ EnterStop(c, "start", minutes)

\* start(minutes) (41-50)
CallStart(c) ==
    /\ clients[c].pc = "idle"
    /\ UNCHANGED <<otherThanTimer, now>>
    /\ \E minutes \in -1..MaxMinutes :
          IF minutes <= 0
          THEN /\ returned' = ReturnOf("start", minutes, "ValueError")
               /\ UNCHANGED <<timer, tasks, clients, afterStop>>
          ELSE /\ CanStart
               /\ EnterStop(c, "start", minutes)

\* stop() (52-60)
CallStop(c) ==
    /\ clients[c].pc = "idle"
    /\ UNCHANGED <<otherThanTimer, now>>
    /\ EnterStop(c, "stop", 0)

\* the op recorded for reset(minutes) and for reset()
ResetOp(given) == IF given THEN "reset" ELSE "reset()"

\* mutant: reset() without an argument forgets the previous duration
CallReset_ForgetsDuration(c) ==
    /\ clients[c].pc = "idle"
    /\ UNCHANGED <<otherThanTimer, now>>
    /\ \E given \in BOOLEAN, minutes \in -1..MaxMinutes :
          LET duration == IF given THEN minutes ELSE RearmMinutes
          IN  /\ ~given => minutes = 0
              /\ IF duration <= 0
                 THEN /\ returned' = ReturnOf(ResetOp(given), duration, "ok")
                      /\ UNCHANGED <<timer, tasks, clients, afterStop>>
                 ELSE /\ CanStart
                      /\ EnterStop(c, ResetOp(given), duration)

\* reset(minutes=None) (62-67); minutes = None is given = FALSE
CallReset(c) ==
    /\ clients[c].pc = "idle"
    /\ UNCHANGED <<otherThanTimer, now>>
    /\ \E given \in BOOLEAN, minutes \in -1..MaxMinutes :
          LET duration == IF given THEN minutes
                          ELSE timer.duration_seconds \div SecondsPerMinute
          IN  /\ ~given => minutes = 0
              /\ IF duration <= 0
                 THEN /\ returned' = ReturnOf(ResetOp(given), duration, "ok")
                      /\ UNCHANGED <<timer, tasks, clients, afterStop>>
                 ELSE /\ CanStart
                      /\ EnterStop(c, ResetOp(given), duration)

\* the awaited countdown task is done: client c resumes in stop() at line 57
ClientResume(c) ==
    /\ clients[c].pc = "stop_wait"
    /\ Done(clients[c].wait)
    /\ UNCHANGED <<otherThanTimer, now>>
    /\ IF clients[c].op = "stop" THEN FinishStop(c)
       ELSE FinishStart(c, clients[c].op, clients[c].arg)

\* set_callback() (38-39), called once as the application does (app.py 227)
SetCallback ==
    /\ timer.callback = "none"
    /\ \E k \in CallbackKinds \ {"none"} : timer' = [timer EXCEPT !.callback = k]
    /\ returned' = NoReturn
    /\ UNCHANGED <<otherThanTimer, now, tasks, clients, afterStop>>

\* time passes
Tick ==
    /\ now < MaxNow * SecondsPerMinute
    /\ now' = now + SecondsPerMinute
    /\ returned' = NoReturn
    /\ UNCHANGED <<otherThanTimer, timer, tasks, clients, afterStop>>

\* first step of a countdown task: a cancelled task never enters _countdown(),
\* another one reads _duration_seconds and suspends in asyncio.sleep (70-71)
TaskStart(t) ==
    /\ tasks[t].st = "ready"
    /\ tasks' = IF tasks[t].cancel
                THEN [tasks EXCEPT ![t] = Cancelled(@)]
                ELSE [tasks EXCEPT ![t].st = "sleeping", ![t].wake = now + timer.duration_seconds]
    /\ returned' = NoReturn
    /\ UNCHANGED <<otherThanTimer, now, timer, clients, afterStop>>

\* CancelledError reaches the task in its sleep or in the awaited callback,
\* which lets it through: `except CancelledError: raise`, `finally` (75-78)
TaskCancelled(t) ==
    /\ tasks[t].st \in {"sleeping", "callback"}
    /\ tasks[t].cancel
    /\ tasks' = [tasks EXCEPT ![t] = Cancelled(@)]
    /\ timer' = Cleanup(timer)
    /\ returned' = NoReturn
    /\ UNCHANGED <<otherThanTimer, now, clients, afterStop>>

\* CancelledError reaches the awaited callback, which catches it and returns
CallbackSwallowsCancel(t) ==
    /\ tasks[t].st = "callback"
    /\ tasks[t].cancel
    /\ tasks' = [tasks EXCEPT ![t] = Finished(@)]
    /\ timer' = Cleanup(timer)
    /\ returned' = NoReturn
    /\ UNCHANGED <<otherThanTimer, now, clients, afterStop>>

\* the re-arming callback run by task t, from the return of `await self._task`
\* in its start() call to the end of _countdown(): _cleanup() and lines 46-49,
\* the callback returns, then `finally: self._cleanup()` (78)
FinishRearm(t, tm, fires) ==
    /\ timer' = Cleanup(Arm(Cleanup(tm), RearmMinutes, FreeId))
    /\ tasks' = [tasks EXCEPT ![t] = Finished([@ EXCEPT !.fired = @ + fires]),
                             ![FreeId].st = "ready"]

\* the sleep is over (72-78, 80-88): _active is cleared and the callback is
\* called; the task ends here unless the callback suspends
TaskExpire(t) ==
    /\ tasks[t].st = "sleeping"
    /\ ~tasks[t].cancel
    /\ now >= tasks[t].wake
    /\ returned' = NoReturn
    /\ UNCHANGED <<otherThanTimer, now, clients>>
    /\ LET tm == [timer EXCEPT !.active = FALSE]
           kind == IF timer.callback = "rearm" /\ ~CanStart THEN "sync" ELSE timer.callback
       IN  CASE kind = "none" ->
                  /\ timer' = Cleanup(tm)
                  /\ tasks' = [tasks EXCEPT ![t] = Finished(@)]
                  /\ afterStop' = afterStop
             [] kind \in {"sync", "raise"} ->
                  /\ timer' = Cleanup(tm)
                  /\ tasks' = [tasks EXCEPT ![t] =
                                 CallbackEnd([@ EXCEPT !.fired = @ + 1], Raising(kind))]
                  /\ afterStop' = NoteFired
             [] kind \in {"async", "async_raise"} ->
                  /\ timer' = tm
                  /\ tasks' = [tasks EXCEPT ![t].st = "callback", ![t].fired = @ + 1]
                  /\ afterStop' = NoteFired
             [] kind = "rearm" ->
                  IF tm.task # None /\ ~Done(tm.task)
                  THEN /\ timer' = tm
                       /\ afterStop' = NoteFired
                       /\ tasks' = IF tm.task = t
                                   THEN [tasks EXCEPT ![t].st = "selfwait", ![t].cancel = TRUE,
                                                      ![t].fired = @ + 1]
                                   ELSE CancelTask([tasks EXCEPT ![t].st = "stopwait",
                                                                 ![t].wait = tm.task,
                                                                 ![t].fired = @ + 1], tm.task)
                  ELSE /\ FinishRearm(t, tm, 1)
                       /\ afterStop' = IF afterStop = "no" THEN "no" ELSE "fired"

\* the suspended callback returns or raises an Exception, which
\* _fire_callback logs (83-88); then `finally: self._cleanup()`
CallbackDone(t) ==
    /\ tasks[t].st = "callback"
    /\ ~tasks[t].cancel
    /\ tasks' = [tasks EXCEPT ![t] = CallbackEnd(@, Raising(timer.callback))]
    /\ timer' = Cleanup(timer)
    /\ returned' = NoReturn
    /\ UNCHANGED <<otherThanTimer, now, clients, afterStop>>

\* task t awaited itself in stop(): the loop throws into it, the pending
\* cancellation turns that into CancelledError, stop() swallows it (55-60)
SelfWaitResume(t) ==
    /\ tasks[t].st = "selfwait"
    /\ FinishRearm(t, timer, 0)
    /\ afterStop' = NoteArmed
    /\ returned' = NoReturn
    /\ UNCHANGED <<otherThanTimer, now, clients>>

\* the task awaited by the callback's start() is done: task t resumes at 57
StopWaitResume(t) ==
    /\ tasks[t].st = "stopwait"
    /\ Done(tasks[t].wait)
    /\ FinishRearm(t, timer, 0)
    /\ afterStop' = NoteArmed
    /\ returned' = NoReturn
    /\ UNCHANGED <<otherThanTimer, now, clients>>

NoTask == [st |-> "none", cancel |-> FALSE, wake |-> 0, fired |-> 0, wait |-> None]

\* SleepTimer() (16-21), no countdown task, every client between calls
InitTimer ==
    /\ timer = [callback |-> "none", duration_seconds |-> 0, task |-> None,
                active |-> FALSE, started_at |-> NotStarted]
    /\ now = 0
    /\ tasks = [t \in TaskIds |-> NoTask]
    /\ clients = [c \in Clients |-> Idle]
    /\ returned = NoReturn
    /\ afterStop = "no"

NextTimer ==
    \/ \E c \in Clients : CallStart(c)
    \/ \E c \in Clients : CallStop(c)
    \/ \E c \in Clients : CallReset(c)
    \/ \E c \in Clients : ClientResume(c)
    \/ SetCallback
    \/ Tick
    \/ \E t \in TaskIds : TaskStart(t)
    \/ \E t \in TaskIds : TaskCancelled(t)
    \/ \E t \in TaskIds : CallbackSwallowsCancel(t)
    \/ \E t \in TaskIds : TaskExpire(t)
    \/ \E t \in TaskIds : CallbackDone(t)
    \/ \E t \in TaskIds : SelfWaitResume(t)
    \/ \E t \in TaskIds : StopWaitResume(t)

\* ---------------------------------------------------- retry_with_backoff
\* exception types: what the wrapped function raises, and the classes that
\* the `exceptions` tuple may name
RaisedKinds == {"ConnectionError", "TimeoutError", "ValueError", "CancelledError"}

ExceptionTuples ==
    {{"Exception"}, {"ConnectionError", "TimeoutError"}, {"ConnectionError"}, {"BaseException"}}

\* issubclass(kind, class) for these types
IsSubclass(kind, class) ==
    \/ kind = class
    \/ class = "BaseException"
    \/ class = "Exception" /\ kind # "CancelledError"

\* mutant: every exception is caught and retried
Catches_Everything(exceptions, kind) == TRUE

\* `except exceptions as exc` (50) catches an exception of this kind
Catches(exceptions, kind) == \E class \in exceptions : IsSubclass(kind, class)

RECURSIVE Pow2(_)
Pow2(n) == IF n = 0 THEN 1 ELSE 2 * Pow2(n - 1)

\* delay = base_delay * (2 ** attempt) (63)
BackoffDelay(base, n) == base * Pow2(n)

Min(a, b) == IF a <= b THEN a ELSE b

\* mutant: the jittered delay is not clamped to max_delay
JitteredDelays_NoClamp(delay, cap) == 0..delay

\* the values random.uniform(0, delay) may give, clamped to max_delay (65-67)
JitteredDelays(delay, cap) == {Min(j, cap) : j \in 0..delay}

\* mutant: the wrapper gives up one attempt early
LastAttempt_OneEarly(n, max) == n + 1 = max

\* mutant: the wrapper sleeps once more after the last attempt
LastAttempt_OneLate(n, max) == n = max + 1

\* `if attempt == max_retries` (53)
LastAttempt(n, max) == n = max

\* `for attempt in range(max_retries + 1)` (47): n is a value of the loop
InRange(n, max) == 0 <= n /\ n < max + 1

\* what the n-th invocation of the wrapped function does: it returns a value
\* of its own or raises an exception of its own, both told apart by n
Returns(n) == [kind |-> "ok", id |-> n]

Raises(kind, n) == [kind |-> kind, id |-> n]

\* wrapper(...) is called (44-47): the decorator's arguments are fixed, the
\* loop starts; range(max_retries + 1) is empty below zero and the wrapper
\* falls through to line 83 with last_exception None
CallWrapper ==
    /\ wpc = "idle"
    /\ \E max \in -1..MaxRetries, base \in 0..MaxBaseDelay, cap \in 0..MaxMaxDelay,
          exceptions \in ExceptionTuples :
          /\ policy' = [max_retries |-> max, base_delay |-> base, max_delay |-> cap,
                        exceptions |-> exceptions]
          /\ wpc' = IF InRange(0, max) THEN "call" ELSE "returned"
    /\ UNCHANGED <<otherThanRetry, attempt, last_exception, outcome, calls, sleeps>>

\* the awaited function returns (49): the wrapper returns its value
AttemptReturns ==
    /\ wpc = "call"
    /\ LET r == Returns(Len(calls) + 1)
       IN  /\ calls' = Append(calls, r)
           /\ outcome' = r
           /\ wpc' = "returned"
    /\ UNCHANGED <<otherThanRetry, policy, attempt, last_exception, sleeps>>

\* what the wrapper does with exception exc of the attempt numbered n (50-80):
\* where it goes next and what last_exception is then
AfterRaise(exc, n, pol, last) ==
    IF ~Catches(pol.exceptions, exc.kind) THEN [pc |-> "raised", last |-> last]
    ELSE IF LastAttempt(n, pol.max_retries) THEN [pc |-> "raised", last |-> exc]
    ELSE [pc |-> "sleep", last |-> exc]

\* the awaited function raises (49-80): the exception passes through, or is
\* re-raised after the last attempt, or the wrapper suspends in asyncio.sleep
AttemptRaises ==
    /\ wpc = "call"
    /\ \E kind \in RaisedKinds :
          LET exc == Raises(kind, Len(calls) + 1)
              after == AfterRaise(exc, attempt, policy, last_exception)
          IN  /\ calls' = Append(calls, exc)
              /\ wpc' = after.pc
              /\ last_exception' = after.last
              /\ outcome' = IF after.pc = "raised" THEN exc ELSE outcome
              /\ IF after.pc = "sleep"
                 THEN \E d \in JitteredDelays(BackoffDelay(policy.base_delay, attempt),
                                              policy.max_delay) :
                         sleeps' = Append(sleeps, d)
                 ELSE sleeps' = sleeps
    /\ UNCHANGED <<otherThanRetry, policy, attempt>>

\* asyncio.sleep returns (80): the loop goes on with the next attempt (47),
\* or is over and last_exception is raised (83-84)
SleepOver ==
    /\ wpc = "sleep"
    /\ IF InRange(attempt + 1, policy.max_retries)
       THEN /\ attempt' = attempt + 1
            /\ wpc' = "call"
            /\ outcome' = outcome
       ELSE /\ attempt' = attempt
            /\ wpc' = "raised"
            /\ outcome' = last_exception
    /\ UNCHANGED <<otherThanRetry, policy, last_exception, calls, sleeps>>

\* Task.cancel() while the wrapper is suspended in asyncio.sleep (80): the
\* sleep will not return, CancelledError is thrown into the wrapper next
CancelRequested ==
    /\ wpc = "sleep"
    /\ wpc' = "cancelling"
    /\ UNCHANGED <<otherThanRetry, policy, attempt, last_exception, outcome, calls, sleeps>>

\* mutant: the sleep is inside the try statement, so a policy that names
\* BaseException catches the cancellation and goes on to the next attempt
CancelledInSleep_Caught ==
    /\ wpc = "cancelling"
    /\ IF Catches(policy.exceptions, "CancelledError") /\ InRange(attempt + 1, policy.max_retries)
       THEN wpc' = "call" /\ attempt' = attempt + 1
       ELSE wpc' = "cancelled" /\ attempt' = attempt
    /\ UNCHANGED <<otherThanRetry, policy, last_exception, outcome, calls, sleeps>>

\* CancelledError is raised by `await asyncio.sleep(...)` (80), inside the
\* except clause and so outside the try body: no clause of the try statement
\* catches it and it leaves the wrapper
CancelledInSleep ==
    /\ wpc = "cancelling"
    /\ wpc' = "cancelled" /\ attempt' = attempt
    /\ UNCHANGED <<otherThanRetry, policy, last_exception, outcome, calls, sleeps>>

\* before the wrapper is called; the policy shown is the decorator's default
InitRetry ==
    /\ policy = [max_retries |-> 3, base_delay |-> 1, max_delay |-> 30,
                 exceptions |-> {"Exception"}]
    /\ wpc = "idle"
    /\ attempt = 0
    /\ last_exception = None
    /\ outcome = None
    /\ calls = <<>>
    /\ sleeps = <<>>

NextRetry ==
    \/ CallWrapper
    \/ AttemptReturns
    \/ AttemptRaises
    \/ SleepOver
    \/ CancelRequested
    \/ CancelledInSleep

\* --------------------------------------------------------- specifications
Init == InitQueue /\ InitTimer /\ InitRetry /\ InitItems

SpecQueue == Init /\ [][NextQueue]_vars

\* the queue as the application uses it across restarts
NextSession ==
    \/ NextQueue
    \/ AppRestart

SpecSession == Init /\ [][NextSession]_vars

SpecTimer == Init /\ [][NextTimer]_vars

SpecRetry == Init /\ [][NextRetry]_vars

SpecItems == Init /\ [][NextItems]_vars

\* ------------------------------------------------------ PlayQueue claims
\* length of the order next() walks: the projection while shuffling
ActiveLen == IF shuffle_mode THEN Len(shuffle_order) ELSE Len(items)

\* the item at slot k (0-based) of the active order
ActiveItem(k) == CurrentOf(items, k, shuffle_mode, shuffle_order)

\* to_list(): all items in play order
ActiveList == [k \in 1..Len(items) |-> ActiveItem(k - 1)]

\* C1: whenever shuffle is active, _shuffle_order holds every index of
\* [0, len(items)) exactly once: same length as items, no duplicate, no gap.
C1_ShuffleOrderIsPermutation ==
    shuffle_mode =>
        /\ Len(shuffle_order) = Len(items)
        /\ \A v \in 0..(Len(items) - 1) :
              Cardinality({k \in 1..Len(shuffle_order) : shuffle_order[k] = v}) = 1

\* a remove() under shuffle that had to renumber the projection
C1_Witness ==
    /\ qop = "remove"
    /\ qret # None
    /\ shuffle_mode
    /\ Len(items) = 2
    /\ shuffle_order = <<1, 0>>

C5_ToggleShuffleKeepsCurrent ==
    [][(qop' = "toggle_shuffle" /\ items # <<>> /\ current_index # -1) =>
         /\ Current' = Current
         /\ Current' \in Elems(items)
         /\ shuffle_mode' =>
               /\ shuffle_order'[1] = current_index
               /\ current_index' = 0
         /\ ~shuffle_mode' =>
               /\ current_index' = IndexOf(items, Current)
               /\ shuffle_order' = <<>>
      ]_vars

\* shuffle was switched on while the third item was playing
C5_Witness ==
    /\ qop = "toggle_shuffle"
    /\ shuffle_mode
    /\ Len(items) = 3
    /\ current_index = 0
    /\ shuffle_order[1] = 2

\* C9: with repeat mode "none", next() on the last slot of the active order
\* returns None and changes nothing, however often it is called; previous()
\* on slot 0 returns None and changes nothing.
C9_NoRepeatStopsAtEnds ==
    /\ [][(qop' = "next" /\ repeat_mode = "none" /\ items # <<>>
             /\ current_index = ActiveLen - 1) =>
            (qret' = None /\ UNCHANGED queueVars)]_vars
    /\ [][(qop' = "previous" /\ repeat_mode = "none" /\ items # <<>>
             /\ current_index = 0) =>
            (qret' = None /\ UNCHANGED queueVars)]_vars
    /\ []((qop = "next" /\ repeat_mode = "none" /\ items # <<>>
             /\ runStart = ActiveLen - 1) =>
            /\ \A k \in 1..Len(nextRets) : nextRets[k] = None
            /\ current_index = runStart)

\* next() was called twice on the last slot of a shuffled queue
C9_Witness ==
    /\ qop = "next"
    /\ repeat_mode = "none"
    /\ shuffle_mode
    /\ Len(items) = 3
    /\ runStart = 2
    /\ Len(nextRets) = 2

C13_SaveRestoreRoundTrip ==
    [][(qop' = "restart") =>
         /\ items' = items
         /\ Current' = Current
         /\ shuffle_mode' = shuffle_mode
         /\ repeat_mode' = repeat_mode]_vars

\* slot (0-based) of item it in the active order
ActiveSlot(it) == IndexOf(ActiveList, it)

\* C14: remove() of an item other than the current one leaves current on
\* the same item, shuffled or not; the cursor goes down by one exactly when
\* the removed item's slot in the active order lies before the cursor.
C14_RemoveOtherKeepsCurrent ==
    [][(qop' = "remove" /\ qret' # None /\ Current \in Elems(items) /\ qret' # Current) =>
         /\ Current' = Current
         /\ current_index' = IF ActiveSlot(qret') < current_index
                              THEN current_index - 1 ELSE current_index]_vars

\* the index arguments of a call are all inside [0, len(items))
ArgsInRange(args, n) == \A k \in 1..Len(args) : 0 <= args[k] /\ args[k] < n

\* C15: jump_to(i) with 0 <= i < len(items) returns items[i] and makes it the
\* current item, whether or not shuffle is active.
C15_JumpToSelectsCanonicalItem ==
    [][(qop' = "jump_to" /\ ArgsInRange(qargs', Len(items))) =>
         /\ qret' = items[qargs'[1] + 1]
         /\ Current' = items[qargs'[1] + 1]]_vars

\* C16: remove, jump_to and move with an index outside [0, len(items)) return
\* None, None and False, and leave items, cursor, shuffle order, shuffle flag
\* and repeat mode unchanged.
C16_OutOfRangeIsRefused ==
    [][(qop' \in {"remove", "jump_to", "move"} /\ ~ArgsInRange(qargs', Len(items))) =>
         /\ qret' = IF qop' = "move" THEN Bool(FALSE) ELSE None
         /\ UNCHANGED queueVars]_vars

\* a move refused for its target index alone, on a queue with a selection
C16_Witness ==
    /\ qop = "move"
    /\ Len(qargs) = 2
    /\ qargs[1] = 0
    /\ qargs[2] = Len(items)
    /\ qret = Bool(FALSE)
    /\ Len(items) = MaxLen
    /\ shuffle_mode
    /\ current_index >= 0

C27_MoveKeepsCurrent ==
    [][(qop' = "move" /\ ArgsInRange(qargs', Len(items)) /\ ~shuffle_mode) =>
         LET from == qargs'[1]
             to == qargs'[2]
         IN  /\ qret' = Bool(TRUE)
             /\ Len(items') = Len(items)
             /\ items'[to + 1] = items[from + 1]
             /\ Pop(items', to) = Pop(items, from)
             /\ Current' = Current
             /\ current_index = from => current_index' = to
             /\ (from < current_index /\ current_index <= to) =>
                   current_index' = current_index - 1
             /\ (to <= current_index /\ current_index < from) =>
                   current_index' = current_index + 1
             /\ ~(from <= current_index /\ current_index <= to) /\
                ~(to <= current_index /\ current_index <= from) =>
                   current_index' = current_index
             /\ UNCHANGED <<shuffle_mode, repeat_mode, shuffle_order>>]_vars

\* the first item was moved to the end past the current one
C27_Witness ==
    /\ qop = "move"
    /\ qargs = <<0, MaxLen - 1>>
    /\ qret = Bool(TRUE)
    /\ ~shuffle_mode
    /\ Len(items) = MaxLen
    /\ current_index = 0
    /\ items[MaxLen] # MaxLen

\* C28: a successful move(from, to) while shuffling leaves a shuffle order
\* that is a permutation of the indices, with the item that was current
\* before the move still current and at slot 0
C28_ShuffledMoveKeepsCurrent ==
    [][(qop' = "move" /\ ArgsInRange(qargs', Len(items)) /\ shuffle_mode
          /\ Current \in Elems(items)) =>
         /\ qret' = Bool(TRUE)
         /\ shuffle_mode'
         /\ Len(shuffle_order') = Len(items')
         /\ Elems(shuffle_order') = 0..(Len(items') - 1)
         /\ Current' = Current
         /\ current_index' = 0]_vars

\* C29: remove(index) of the current item leaves the cursor on its slot,
\* clamped to the new last slot, -1 when the queue is empty; the current item
\* is then the one that followed the removed one in play order, or the new
\* last one
C29_RemoveCurrentSelectsFollower ==
    [][(qop' = "remove" /\ qret' # None /\ qret' = Current) =>
         /\ current_index' = IF items' = <<>> THEN -1
                              ELSE IF current_index < ActiveLen' THEN current_index
                              ELSE ActiveLen' - 1
         /\ Current' = IF items' = <<>> THEN None
                        ELSE IF current_index + 1 < ActiveLen
                             THEN ActiveItem(current_index + 1)
                             ELSE ActiveItem(current_index - 1)]_vars

\* C33: in every state the PlayQueue operations reach with shuffle inactive
\* the projection is empty, and the current item is read from the canonical
\* order at the cursor
C33_ProjectionOnlyWhileShuffled ==
    ~shuffle_mode =>
       /\ shuffle_order = <<>>
       /\ Current = IF 0 <= current_index /\ current_index < Len(items)
                    THEN items[current_index + 1] ELSE None

\* toggle_shuffle() has just switched shuffle off on a full queue whose cursor
\* is past the first item
C33_Witness ==
    /\ qop = "toggle_shuffle"
    /\ qret = Bool(FALSE)
    /\ ~shuffle_mode
    /\ shuffle_order = <<>>
    /\ Len(items) = MaxLen
    /\ current_index > 0

\* C34: clear() leaves no items, an empty projection and cursor -1 with no
\* current item, and both flags as they were; the first add() on the cleared
\* queue with shuffle still active gives the projection of the one item
C34_ClearEmptiesQueue ==
    [][/\ (qop' = "clear") =>
             /\ items' = <<>>
             /\ shuffle_order' = <<>>
             /\ current_index' = -1
             /\ Current' = None
             /\ shuffle_mode' = shuffle_mode
             /\ repeat_mode' = repeat_mode
       /\ (qop' = "add" /\ items = <<>> /\ current_index = -1 /\ shuffle_mode) =>
             /\ Len(items') = 1
             /\ shuffle_order' = <<0>>
             /\ shuffle_mode']_vars

\* clear() has dropped a full shuffled queue whose repeat mode was "all"
C34_Witness ==
    /\ qop = "clear"
    /\ qargs = <<MaxLen>>
    /\ items = <<>>
    /\ shuffle_mode
    /\ repeat_mode = "all"

\* C36: has_previous is true exactly when a previous() called next would
\* return an item
C36_HasPreviousMatchesPrevious ==
    HasPrevious <=> PreviousStep.ret \notin {None, IndexError}

\* C37: has_next is true exactly when a next() called next would return an
\* item
C37_HasNextMatchesNext ==
    HasNext <=> NextStep.ret \notin {None, IndexError}

\* C38: enabling shuffle on a queue with a valid cursor puts the current item
\* on slot 0 of a projection that holds every index once; from there, with
\* repeat mode "none", the k-th of a run of next() calls returns the item on
\* slot k of the projection for k < N and None from then on, so the N - 1
\* other items are returned once each and none twice
C38_ShuffledPassVisitsEachOnce ==
    /\ [][(/\ \/ qop' = "shuffle"
               \/ (qop' = "toggle_shuffle" /\ ~shuffle_mode)
            /\ 0 <= current_index /\ current_index < Len(items)) =>
             /\ shuffle_mode'
             /\ current_index' = 0
             /\ shuffle_order'[1] = current_index
             /\ Elems(shuffle_order') = 0..(Len(items) - 1)
             /\ Len(shuffle_order') = Len(items)]_vars
    /\ []((qop = "next" /\ shuffle_mode /\ repeat_mode = "none" /\ runStart = 0) =>
            /\ \A k \in 1..Len(nextRets) :
                  nextRets[k] = IF k < Len(items) THEN items[shuffle_order[k + 1] + 1]
                                ELSE None
            /\ \A j, k \in 1..Len(nextRets) :
                  (j < k /\ k < Len(items)) => nextRets[j] # nextRets[k]
            /\ \A k \in 1..Len(nextRets) : nextRets[k] # items[shuffle_order[1] + 1]
            /\ Len(nextRets) >= Len(items) - 1 =>
                  {nextRets[k] : k \in 1..(Len(items) - 1)}
                     = Elems(items) \ {items[shuffle_order[1] + 1]})

\* a full pass over a shuffled queue of three items and one call more
C38_Witness ==
    /\ qop = "next"
    /\ shuffle_mode
    /\ repeat_mode = "none"
    /\ runStart = 0
    /\ Len(items) = MaxLen
    /\ shuffle_order = <<1, 2, 0>>
    /\ Len(nextRets) = MaxLen
    /\ nextRets[MaxLen] = None
    /\ current_index = MaxLen - 1

\* C23: after the application has restored a snapshot whose shuffle flag is
\* true, whatever the shuffle flag of the new queue was, shuffle is active and
\* the projection is a permutation of the canonical indices
C23_RestoredShuffleHasProjection ==
    [][(qop' \in {"restart", "restart_stale"} /\ shuffle_mode /\ items # <<>>) =>
         /\ shuffle_mode'
         /\ Len(shuffle_order') = Len(items')
         /\ Elems(shuffle_order') = 0..(Len(items') - 1)]_vars

\* C22: a load whose list holds a record without one of the six keys
\* raises, and no item is built from that record or from a later one
C22_MissingFieldFailsLoad ==
    [][(iop' \in {"load", "load_raised"}) =>
         \A k \in 1..Len(iargs') :
            (DOMAIN iargs'[k] # ItemKeys) =>
               /\ QueueItemFromDict(iargs'[k]).raised
               /\ iop' = "load_raised"
               /\ Len(item_fields') < k]_vars

\* some queued item has this video_id
Queued(vid) == \E k \in 1..Len(item_fields) : item_fields[k].video_id = vid

\* C26: get_playback_position(id) is 0 when no item has the id; after
\* update_playback_position(id, s) with the id queued it is s; an update for
\* an id not queued changes nothing; an update changes no item with another
\* id, no field but the position, neither the order nor the cursor
C26_ResumePositionByVideoId ==
    [][/\ (iop' = "get" /\ ~Queued(iargs'[1])) => iret' = 0
       /\ (iop' = "update_get" /\ iargs'[3] = iargs'[1] /\ Queued(iargs'[1])) =>
             iret' = iargs'[2]
       /\ (iop' = "update") =>
             /\ ~Queued(iargs'[1]) => item_fields' = item_fields
             /\ Len(item_fields') = Len(item_fields)
             /\ \A k \in 1..Len(item_fields) :
                   /\ item_fields[k].video_id # iargs'[1] => item_fields'[k] = item_fields[k]
                   /\ [item_fields'[k] EXCEPT !.playback_position = 0]
                         = [item_fields[k] EXCEPT !.playback_position = 0]
             /\ item_index' = item_index]_vars

\* a position was stored for the second of two queued items and read back
C26_Witness ==
    /\ iop = "update_get"
    /\ iargs[3] = iargs[1]
    /\ Len(item_fields) = MaxDicts
    /\ item_fields[1].video_id # iargs[1]
    /\ item_fields[MaxDicts].video_id = iargs[1]
    /\ item_fields[MaxDicts].playback_position = MaxPosition + 1
    /\ iret = MaxPosition + 1
    /\ item_index = 0

\* C32: whatever integers update_playback_position() is given and whatever
\* records are loaded, no queued item has a negative playback_position
C32_ResumePositionNonNegative ==
    \A k \in 1..Len(item_fields) : item_fields[k].playback_position >= 0

\* ----------------------------------------------------- SleepTimer claims
\* task t invokes the registered callback in this step
Invokes(t) == tasks'[t].fired # tasks[t].fired

\* C3: once a call of stop() has returned, the callback is not invoked and
\* no invocation in progress goes on, until a start() arms the timer again
C3_NoCallbackAfterStop ==
    /\ afterStop # "fired"
    /\ afterStop = "quiet" =>
          \A t \in TaskIds : tasks[t].st \notin {"callback", "selfwait", "stopwait"}

\* C4: a countdown invokes the callback once, when its sleep ends, and at
\* most once; the callback is invoked only by the countdown of an armed
\* timer, never while the timer is idle and never by start, stop or reset
C4_CallbackOnceAtExpiryOfArmedTimer ==
    /\ [](\A t \in TaskIds : tasks[t].fired <= 1)
    /\ [][\A t \in TaskIds :
            /\ Invokes(t) =>
                  /\ tasks[t].st = "sleeping" /\ ~tasks[t].cancel /\ now >= tasks[t].wake
                  /\ tasks[t].fired = 0 /\ tasks'[t].fired = 1
                  /\ returned' = NoReturn
                  /\ IsActive
            /\ (tasks[t].st = "sleeping" /\ tasks'[t].st = "finished" /\ timer.callback # "none")
                  => Invokes(t)]_vars

\* C17: start(minutes) with minutes <= 0 raises ValueError and arms nothing:
\* the timer's fields, every countdown task and what is_active and
\* remaining_seconds report are as before the call
C17_StartRejectsNonPositive ==
    [][(returned'.op = "start" /\ returned'.arg <= 0) =>
         /\ returned'.ret = "ValueError"
         /\ UNCHANGED <<timer, tasks, now>>
         /\ IsActive' = IsActive
         /\ RemainingSeconds' = RemainingSeconds]_vars

\* start(-1) has just been refused while a countdown armed for MaxMinutes
\* sleeps, uncancelled, with time left
C17_Witness ==
    /\ returned = ReturnOf("start", -1, "ValueError")
    /\ IsActive
    /\ timer.duration_seconds = MaxMinutes * SecondsPerMinute
    /\ tasks[timer.task].st = "sleeping"
    /\ ~tasks[timer.task].cancel
    /\ RemainingSeconds > 0
    /\ RemainingSeconds < timer.duration_seconds

\* the countdown tasks that are not done
PendingCountdowns == {t \in TaskIds : tasks[t].st # "none" /\ ~Done(t)}

\* the registered callback does not suspend: a task that is not done is a
\* countdown in or before its sleep, and the timer that tracks it is armed
PlainCallback == timer.callback \in {"none", "sync", "raise"}

\* C18: when start(m2), called on an armed timer, returns, the earlier
\* countdown is done without having invoked the callback, one countdown is
\* pending, it is the tracked one, and the remaining time is m2 counted from
\* the start
C18_RestartLeavesOneCountdown ==
    [][\A c \in Clients :
          (/\ PlainCallback
           /\ clients[c].pc = "stop_wait" /\ clients[c].op = "start"
           /\ clients'[c].pc = "idle") =>
             /\ returned' = ReturnOf("start", clients[c].arg, "ok")
             /\ Done(clients[c].wait)
             /\ tasks[clients[c].wait].fired = 0
             /\ IsActive'
             /\ PendingCountdowns' = {timer'.task}
             /\ RemainingSeconds' = clients[c].arg * SecondsPerMinute]_vars

ResetOps == {"reset", "reset()"}

\* the timer after stop() and then start(minutes), neither of which had a
\* countdown to wait for: _cleanup() (60), again from start()'s own stop()
\* (45, 60), then lines 46-49
StopThenStart(tm, minutes, id) == Arm(Cleanup(Cleanup(tm)), minutes, id)

\* stop() would wait for a countdown
StopWaits == timer.task # None /\ ~Done(timer.task)

\* reset() without an argument was given the previous duration
ResetDuration(op, minutes) ==
    op = "reset()" => minutes = timer.duration_seconds \div SecondsPerMinute

\* a reset with a positive duration does what stop() followed by
\* start(duration) does: with no countdown to wait for it arms at once; with
\* one, it cancels it, waits until it is done, and arms then
ResetPositive ==
    /\ (returned'.op \in ResetOps /\ returned'.arg > 0 /\ clients' = clients) =>
          /\ ~StopWaits
          /\ ResetDuration(returned'.op, returned'.arg)
          /\ returned'.ret = "ok"
          /\ timer'.task \in TaskIds /\ tasks[timer'.task].st = "none"
          /\ timer' = StopThenStart(timer, returned'.arg, timer'.task)
          /\ tasks' = [tasks EXCEPT ![timer'.task].st = "ready"]
    /\ \A c \in Clients :
          /\ (clients[c].pc = "idle" /\ clients'[c].pc = "stop_wait"
                 /\ clients'[c].op \in ResetOps) =>
                /\ StopWaits
                /\ clients'[c].arg > 0
                /\ ResetDuration(clients'[c].op, clients'[c].arg)
                /\ clients'[c].wait = timer.task
                /\ tasks' = CancelTask(tasks, timer.task)
                /\ timer' = timer
          /\ (clients[c].pc = "stop_wait" /\ clients[c].op \in ResetOps
                 /\ clients'[c].pc = "idle") =>
                /\ Done(clients[c].wait)
                /\ returned' = ReturnOf(clients[c].op, clients[c].arg, "ok")
                /\ timer'.task \in TaskIds /\ tasks[timer'.task].st = "none"
                /\ timer' = StopThenStart(timer, clients[c].arg, timer'.task)
                /\ tasks' = [tasks EXCEPT ![timer'.task].st = "ready"]

\* C19 as stated: reset is stop() followed by start() for every argument, so
\* with a duration <= 0 (given, or the previous duration of a timer never
\* started) it stops the timer and raises ValueError
C19_ResetIsStopThenStart ==
    [][/\ ResetPositive
       /\ (returned'.op \in ResetOps /\ returned'.arg <= 0) =>
             /\ returned'.ret = "ValueError"
             /\ ~IsActive'
             /\ PendingCountdowns' = {}]_vars

\* C19, amended: reset is stop() followed by start() when the duration is
\* positive; with a duration <= 0 it returns without an error and leaves the
\* timer and its countdown as they are
C19_ResetIsStopThenStartWhenPositive ==
    [][/\ ResetPositive
       /\ (returned'.op \in ResetOps /\ returned'.arg <= 0) =>
             /\ ResetDuration(returned'.op, returned'.arg)
             /\ returned'.ret = "ok"
             /\ UNCHANGED <<timer, tasks, clients, now>>]_vars

\* reset(-1) has just returned on a timer whose countdown still sleeps
C19_Witness ==
    /\ returned = ReturnOf("reset", -1, "ok")
    /\ IsActive
    /\ tasks[timer.task].st = "sleeping"
    /\ ~tasks[timer.task].cancel

\* C20: when stop() returns, is_active is false, remaining_seconds is 0,
\* no task is tracked and no countdown is pending; a stop() on an idle timer
\* returns at once and changes nothing
C20_StopLeavesTimerIdle ==
    [][(returned'.op = "stop") =>
         /\ returned'.ret = "ok"
         /\ ~IsActive'
         /\ RemainingSeconds' = 0
         /\ timer'.task = None
         /\ PendingCountdowns' = {}
         /\ (~timer.active /\ timer.task = None) =>
               UNCHANGED <<timer, tasks, clients, now>>]_vars

\* C21: a countdown whose callback fails ends normally, having invoked the
\* callback once, and leaves the timer idle: is_active false, nothing tracked,
\* remaining_seconds 0, as a countdown whose callback succeeded does
C21_CallbackFailureIsContained ==
    /\ [](\A t \in TaskIds : tasks[t].st # "failed" /\ tasks[t].fired <= 1)
    /\ [][\A t \in TaskIds :
            (/\ tasks[t].st \in {"sleeping", "callback"} /\ Done(t)'
             /\ ~tasks[t].cancel
             /\ timer.callback \in {"sync", "async"} \/ Raising(timer.callback)) =>
                /\ tasks'[t].st = "finished"
                /\ tasks'[t].fired = 1
                /\ ~IsActive'
                /\ timer' = Cleanup(timer)
                /\ RemainingSeconds' = 0]_vars

\* a countdown has ended after its suspended callback raised
C21_Witness ==
    /\ timer.callback = "async_raise"
    /\ \E t \in TaskIds : tasks[t].st = "finished" /\ tasks[t].fired = 1
    /\ ~IsActive
    /\ timer.task = None

\* the countdown created by the last start()/reset() that armed the timer:
\* tasks are numbered in the order asyncio.create_task() made them (49)
LastTask ==
    IF \A t \in TaskIds : tasks[t].st = "none" THEN None
    ELSE CHOOSE t \in TaskIds :
            tasks[t].st # "none" /\ \A u \in TaskIds : u > t => tasks[u].st = "none"

\* Armed: a start()/reset() armed the timer, no stop() has returned since,
\* and that countdown has neither expired nor ended
Armed ==
    /\ afterStop = "no"
    /\ LastTask # None
    /\ tasks[LastTask].st \in {"ready", "sleeping"}

\* not Armed: never started, stopped, the callback running, or finished
NotArmed ==
    \/ LastTask = None
    \/ afterStop = "quiet"
    \/ tasks[LastTask].st \in {"callback", "selfwait", "stopwait"}
    \/ Done(LastTask)

\* C31: remaining_seconds is 0 while the timer is not Armed; while it is
\* Armed the timer tracks that countdown and remaining_seconds is
\* max(0, duration - time since the arming); it is never negative, never
\* above the duration, and grows only in a step that arms the timer
C31_RemainingSecondsFollowsArming ==
    /\ [](/\ 0 <= RemainingSeconds
          /\ RemainingSeconds <= timer.duration_seconds
          /\ NotArmed => RemainingSeconds = 0
          /\ Armed =>
                /\ timer.task = LastTask
                /\ timer.started_at # NotStarted
                /\ RemainingSeconds =
                      IF timer.duration_seconds - (now - timer.started_at) > 0
                      THEN timer.duration_seconds - (now - timer.started_at) ELSE 0)
    /\ [][RemainingSeconds' > RemainingSeconds =>
            /\ LastTask' # LastTask
            /\ timer'.task = LastTask'
            /\ timer'.started_at = now]_vars

\* the countdowns that have not expired and have not ended
Counting == {t \in TaskIds : tasks[t].st \in {"ready", "sleeping"}}

\* C35: at every moment at most one countdown is pending, and it is the one
\* the timer tracks, so that is_active is true while it is pending
C35_OneTrackedCountdown ==
    /\ Cardinality(Counting) <= 1
    /\ \A t \in Counting :
          /\ timer.task = t
          /\ IsActive

\* --------------------------------------------- retry_with_backoff claims
\* the kind is one of the configured retryable kinds, or a subclass of one
RetryableKind(kind) == \E class \in policy.exceptions : IsSubclass(kind, class)

\* the invocation failed with a retryable kind
RetryableFailure(c) == c.kind # "ok" /\ RetryableKind(c.kind)

\* every invocation so far failed with a retryable kind
AllRetryable == \A n \in 1..Len(calls) : RetryableFailure(calls[n])

\* the wrapper has not given up: it is about to call, sleeping before the
\* next call, or was cancelled from outside in that sleep
GoesOn == wpc \in {"call", "sleep", "cancelling", "cancelled"}

\* C6: when the operation fails retryably k <= max_retries times and then
\* succeeds, the (k+1)-th call is made, its value is returned, and the
\* success is the last call
C6_SuccessAfterFailuresEndsLoop ==
    /\ \A n \in 1..Len(calls) :
          calls[n].kind = "ok" =>
             /\ n = Len(calls)
             /\ wpc = "returned" /\ outcome = calls[n]
             /\ n - 1 <= policy.max_retries
             /\ \A j \in 1..(n - 1) : RetryableFailure(calls[j])
             /\ Len(sleeps) = n - 1
    /\ (calls # <<>> /\ AllRetryable /\ Len(calls) <= policy.max_retries) => GoesOn

C6_Witness ==
    /\ wpc = "returned"
    /\ Len(calls) = MaxRetries + 1
    /\ calls[Len(calls)].kind = "ok"
    /\ policy.max_retries = MaxRetries

\* C7: when every call fails retryably and max_retries >= 0, the operation
\* is called max_retries + 1 times, then the failure of the last call is
\* raised as it is, with one sleep before each call but the first
C7_ExhaustedRetriesReraiseLast ==
    (policy.max_retries >= 0 /\ calls # <<>> /\ AllRetryable) =>
        /\ Len(calls) <= policy.max_retries + 1
        /\ Len(calls) = policy.max_retries + 1 =>
              /\ wpc = "raised"
              /\ outcome = calls[Len(calls)]
              /\ Len(sleeps) = policy.max_retries
        /\ Len(calls) < policy.max_retries + 1 => GoesOn

C7_Witness ==
    /\ wpc = "raised"
    /\ AllRetryable
    /\ policy.max_retries = MaxRetries
    /\ Len(calls) = MaxRetries + 1
    /\ outcome = calls[Len(calls)]

\* C8: a failure of a kind the policy does not retry is raised at once: it
\* is the last call, it is what the wrapper raises, and no sleep follows it
C8_NonRetryableRaisedAtOnce ==
    \A n \in 1..Len(calls) :
        (calls[n].kind # "ok" /\ ~RetryableKind(calls[n].kind)) =>
            /\ n = Len(calls)
            /\ wpc = "raised" /\ outcome = calls[n]
            /\ Len(sleeps) = n - 1

C8_Witness ==
    /\ wpc = "raised"
    /\ Len(calls) = 1
    /\ ~RetryableKind(calls[1].kind)
    /\ policy.max_retries = MaxRetries

\* C24: a cancellation that arrives while the wrapper sleeps between two
\* attempts leaves the wrapper as a cancellation: the next step of the
\* wrapper is that exit, nothing is recorded as caught, and the wrapped
\* function is not called again
C24_CancellationInSleepPropagates ==
    /\ [][(wpc = "cancelling") =>
            /\ wpc' = "cancelled"
            /\ UNCHANGED <<calls, sleeps, attempt, last_exception, outcome>>]_retryVars
    /\ [][(wpc = "cancelled") => UNCHANGED retryVars]_vars

\* cancelled in the second sleep, under a policy that names BaseException
C24_Witness ==
    /\ wpc = "cancelled"
    /\ policy.exceptions = {"BaseException"}
    /\ Len(calls) = MaxRetries
    /\ Len(sleeps) = MaxRetries
    /\ policy.max_retries = MaxRetries

\* C30: the n-th sleep follows the n-th call, which failed with a retryable
\* kind and was not the last one allowed; its delay is between 0 and the
\* smaller of base_delay * 2^(n-1) and max_delay; there is one sleep between
\* two calls and none before the first call or after the call that ends the
\* wrapper
C30_OneBoundedSleepBetweenAttempts ==
    /\ \A n \in 1..Len(sleeps) :
          /\ n <= Len(calls) /\ RetryableFailure(calls[n])
          /\ n <= policy.max_retries
          /\ 0 <= sleeps[n]
          /\ sleeps[n] <= policy.base_delay * Pow2(n - 1)
          /\ sleeps[n] <= policy.max_delay
    /\ wpc \in {"call", "sleep", "cancelling", "cancelled"} => Len(sleeps) = Len(calls)
    /\ wpc \in {"returned", "raised"} =>
          Len(sleeps) = IF calls = <<>> THEN 0 ELSE Len(calls) - 1

\* the second sleep was cut down to max_delay, and the last call followed it
C30_Witness ==
    /\ Len(sleeps) = MaxRetries
    /\ Len(calls) = MaxRetries + 1
    /\ policy.base_delay = MaxBaseDelay
    /\ policy.max_delay < policy.base_delay * Pow2(MaxRetries - 1)
    /\ sleeps[MaxRetries] = policy.max_delay
    /\ policy.max_delay > 0
    /\ wpc = "raised"

\* C39: for every max_retries the wrapper makes at most max(max_retries, 0)
\* + 1 calls, and when it is over it has made at least one: it returns the
\* value of its last call or raises the failure of its last call
C39_WrapperInvokesAtLeastOnce ==
    /\ Len(calls) <= (IF policy.max_retries > 0 THEN policy.max_retries ELSE 0) + 1
    /\ wpc \in {"returned", "raised"} =>
          /\ calls # <<>>
          /\ outcome = calls[Len(calls)]
          /\ (wpc = "returned") <=> (calls[Len(calls)].kind = "ok")

====
